---- MODULE Spec2Model ----
(***************************************************************************)
(* Model of the `wait` command of dbcopy (src/cmd/wait.go).                *)
(*                                                                         *)
(* Wait() builds a WaitModel, runs it as a bubbletea program and waits     *)
(* (deferred WaitModel.Wait) for the three watcher commands registered in  *)
(* the wait group.  The bubbletea runtime is modelled by what it does with *)
(* the commands and messages this file hands to it:                        *)
(*   - one event loop goroutine receives the messages and calls Update,    *)
(*     one message at a time;                                              *)
(*   - a command returned by Init/Update runs in its own goroutine and its *)
(*     result is offered to the event loop with Send, which blocks until   *)
(*     the loop takes it and returns at once when the program has ended;   *)
(*   - tea.Sequence runs its commands in order in one goroutine, that is   *)
(*     started when the event loop receives the sequence message;          *)
(*     tea.Batch inside it runs its commands concurrently;                 *)
(*   - after Update has handled a message the runtime calls View and      *)
(*     writes the frame;                                                   *)
(*   - tea.Quit ends the event loop.                                       *)
(* Errors are sequences of message tokens; fmt.Errorf("p: %w", e) puts the *)
(* tokens of p in front of e, so that errors.Is is a test on suffixes.     *)
(***************************************************************************)
EXTENDS Integers, Sequences, FiniteSets, Bags, TLC

\* ---------------------------------------------------------------- bounds
MaxQuitKeys == 1

\* ------------------------------------------------------------- constants
barPad == 8
barMaxWidth == 64
defaultWidth == 40

errorExt == ".error"
okExt == ".ok"
sqlExt == ".bz2.crypt"
startedExt == ".started"

Names == {"db"}
Bodies == {"dump failed"}
Sizes == {0, 5}
Timeouts == {2}
Elapsed == {1, 3}
Widths == {100}
QuitKeys == {"ctrl+c", "q", "esc"}
Keys == {"esc", "x"}
Watchers == {"started", "error", "ok"}

\* ---------------------------------------------------------------- errors
Nil == <<>>
Canceled == <<"context canceled">>
DeadlineExceeded == <<"exceeded max wait time">>
TransportErr == <<"transport error">>
ErrProgram == <<"read input failed">>

Errorf(prefix, err) == prefix \o err

ErrorsIs(err, target) ==
  \E i \in 1..Len(err) : SubSeq(err, i, Len(err)) = target

Contains(err, token) == \E i \in 1..Len(err) : err[i] = token

Min(a, b) == IF a < b THEN a ELSE b

\* ----------------------------------------------------------------- state
VARIABLES
  object,         \* the job name (args[0])
  waitMax,        \* the timeout (flag -t), in seconds
  mainPc,         \* where Wait() is
  runErr,         \* the error progress.Run() returned
  retErr,         \* the error Wait() returns
  stdout,         \* what Wait() has written to the primary output
  ctxCause,       \* cancellation cause of model.running (Nil: not canceled)
  wg,             \* counter of model.wg
  percent,        \* model.percent, in units of 1/waitMax
  progressWidth,  \* model.progress.Width
  contentLength,  \* model.contentLength
  view,           \* the frame the runtime rendered last (View's result)
  seqPc,          \* the goroutine running the sequence Init returned
  tickPc,         \* the tick command Update re-arms
  wpc,            \* each watcher command's position
  wmsg,           \* the waitMsg each watcher command returned
  okSeq,          \* the sequence handleWaits returned for the ok outcome
  startedSeq,     \* the sequence handleWaits returned for "started"
  quitCmds,       \* quitCmd commands returned by Update, not yet run
  quitMsgs,       \* whether a tea.Quit message is offered to the event loop
  keysLeft,       \* quit key presses the input may still deliver
  markers,        \* marker objects of the store, in the order they appeared
  printed,        \* lines the program printed above the progress view
  failures,       \* history: the failures the object store has answered
  fetched,        \* history: the body GetObject returned for the error marker
  headed,         \* history: the size HeadObject returned, << >> before
  calls,          \* history: bag of the store calls, <<watcher, call, key>>
  first,          \* history: the first terminal event Update handled
  firstErr,       \* history: the first error Update handled before any cancel
  firstErrFrom    \* history: the watcher that returned firstErr

vars == << object, waitMax, mainPc, runErr, retErr, stdout, ctxCause, wg,
           percent, progressWidth, contentLength, view, seqPc, tickPc, wpc,
           wmsg, okSeq, startedSeq, quitCmds, quitMsgs, keysLeft, markers,
           printed,
           failures, fetched, headed, calls, first, firstErr,
           firstErrFrom >>

mainVars == << mainPc, runErr, retErr, stdout >>
displayVars == << percent, progressWidth, contentLength >>
watchVars == << wpc, wmsg, wg >>
inputVars == << keysLeft >>
cmdVars == << seqPc, tickPc, okSeq, startedSeq, quitCmds, quitMsgs >>
histVars == << printed, first, firstErr, firstErrFrom >>
envVars == << markers, failures, fetched, headed, calls >>

None == "none"
zeroMsg == [started |-> FALSE, size |-> 0, err |-> Nil]

\* A key derivation that leaves the extension out.
Key_NoExt(ext) == << object, "" >>

\* self.object + ext
Key(ext) == << object, ext >>
Visible(ext) == \E i \in 1..Len(markers) : markers[i] = ext
Running == mainPc = "eventloop"

\* A cancel whose last call wins instead of the first.
cancel_LastWins(cause, arg) ==
  IF arg = Nil THEN Canceled ELSE arg

\* context.WithCancelCause: the first cancel sets the cause (context.Canceled
\* for a nil argument), every later call is a no-op.
cancel(cause, arg) ==
  IF cause # Nil THEN cause
  ELSE IF arg = Nil THEN Canceled ELSE arg

\* A View that draws the progress view whatever the run context says.
View_IgnoresCancel(cause, pct, width) ==
  << "elapsed", pct, width, "left", "Press Esc/C-c/q to quit" >>

\* View(): the empty string once the run context is done, else the elapsed
\* time, the bar drawn at percent with its width, the time left and the help.
View(cause, pct, width) ==
  IF cause # Nil THEN << >>
  ELSE << "elapsed", pct, width, "left", "Press Esc/C-c/q to quit" >>

\* The runtime renders after Update has returned: it calls View() and
\* writes the frame.
Render == view' = View(ctxCause', percent', progressWidth')

\* NewWaitModel(...).WithTimeout(waitMax): the state Wait() starts from.
NewWaitModel ==
  /\ object \in Names
  /\ waitMax \in Timeouts
  /\ mainPc = "start"
  /\ runErr = Nil
  /\ retErr = Nil
  /\ stdout = << >>
  /\ ctxCause = Nil
  /\ wg = 0
  /\ percent = 0
  /\ progressWidth = defaultWidth
  /\ contentLength = 0
  /\ view = << >>
  /\ seqPc = "none"
  /\ tickPc = "off"
  /\ wpc = [w \in Watchers |-> "new"]
  /\ wmsg = [w \in Watchers |-> zeroMsg]
  /\ okSeq = "none"
  /\ startedSeq = "none"
  /\ quitCmds = 0
  /\ quitMsgs = FALSE
  /\ keysLeft = MaxQuitKeys
  /\ markers = << >>
  /\ printed = {}
  /\ failures = {}
  /\ fetched = None
  /\ headed = << >>
  /\ calls = EmptyBag
  /\ first = None
  /\ firstErr = Nil
  /\ firstErrFrom = None

Init == NewWaitModel

\* ------------------------------------------------------- the object store
\* What an existence-wait on <object><ext> returns: the object once it is
\* visible, a deadline or transport failure, and the context's error once
\* the run context is canceled.
WaitOutcomes(ext) ==
  IF ctxCause # Nil THEN {Canceled}
  ELSE (IF Visible(ext) THEN {Nil} ELSE {})
         \cup {DeadlineExceeded, TransportErr}

\* A store call with the run context fails with the context's error once the
\* context is canceled, otherwise it succeeds or fails in transport.
CallFailures == IF ctxCause # Nil THEN {Canceled} ELSE {TransportErr}

GetOutcomes ==
  (IF ctxCause # Nil THEN {}
   ELSE [err : {Nil}, readErr : {Nil}, body : Bodies])
    \cup [err : CallFailures, readErr : {Nil}, body : {""}]
    \cup [err : {Nil}, readErr : CallFailures, body : {""}]

HeadOutcomes ==
  (IF ctxCause # Nil THEN {} ELSE [err : {Nil}, size : Sizes])
    \cup [err : CallFailures, size : {0}]

\* A marker object appears in the store.  Only its watcher reads it, with
\* its existence-wait: an appearance after that wait has returned is left out.
MarkerAppears(w, ext) ==
  /\ mainPc \in {"start", "eventloop"}
  /\ wpc[w] \in {"new", "idle", "waiting"}
  /\ ~Visible(ext)
  /\ markers' = Append(markers, ext)
  /\ UNCHANGED view
  /\ UNCHANGED << object, waitMax, mainVars, ctxCause, displayVars,
                  watchVars, inputVars, cmdVars, histVars, failures,
                  fetched, headed, calls >>

\* The store answers a call with err: its failures are recorded, the
\* context's own error is not one.
Answer(err) ==
  failures' = IF err \in {DeadlineExceeded, TransportErr}
                THEN failures \cup {err} ELSE failures

\* ------------------------------------------------------------ the watchers
\* A waitObject that returns the waiter's error without the key.
waitObject_Unwrapped(key, why) == why

waitObject(key, why) ==
  IF why # Nil THEN Errorf(<<"wait for">> \o key, why) ELSE Nil

\* A readError that reports the failure without the text it has read.
readError_NoBody(key, resp) ==
  IF resp.err # Nil THEN Errorf(<<"reading">> \o key, resp.err)
  ELSE IF resp.readErr # Nil
    THEN Errorf(<<"reading all from">> \o key, resp.readErr)
  ELSE << "" >>

readError(key, resp) ==
  IF resp.err # Nil THEN Errorf(<<"reading">> \o key, resp.err)
  ELSE IF resp.readErr # Nil
    THEN Errorf(<<"reading all from">> \o key, resp.readErr)
  ELSE << resp.body >>

\* A size that does not take the length from the response.
size_DropsLength(key, resp) ==
  IF resp.err # Nil
    THEN [size |-> 0, err |-> Errorf(<<"heading">> \o key, resp.err)]
  ELSE [size |-> 0, err |-> Nil]

size(key, resp) ==
  IF resp.err # Nil
    THEN [size |-> 0, err |-> Errorf(<<"heading">> \o key, resp.err)]
  ELSE [size |-> resp.size, err |-> Nil]

\* A watcher command returns msg: the deferred wg.Done runs, then the runtime
\* offers msg to the event loop (dropped when the program has ended).
Return(w, msg) ==
  /\ wmsg' = [wmsg EXCEPT ![w] = IF Running THEN msg ELSE zeroMsg]
  /\ wpc' = [wpc EXCEPT ![w] = IF Running THEN "sending" ELSE "dropped"]
  /\ wg' = wg - 1

\* A watcher passes key to the store with call.
StoreCall(w, call, key) == calls' = calls (+) SetToBag({ << w, call, key >> })

\* A waitStarted that waits again when the store fails in transport.
waitStarted_Retries ==
  /\ wpc["started"] = "waiting"
  /\ LET key == Key(startedExt) IN
     \E why \in WaitOutcomes(startedExt) :
       /\ StoreCall("started", "wait", key)
       /\ Answer(why)
       /\ LET err == waitObject(key, why) IN
          IF why = TransportErr
            THEN UNCHANGED << wpc, wmsg, wg >>
          ELSE IF err # Nil
            THEN Return("started", [zeroMsg EXCEPT !.err = err])
            ELSE Return("started", [zeroMsg EXCEPT !.started = TRUE])
  /\ UNCHANGED view
  /\ UNCHANGED << object, waitMax, mainVars, ctxCause, displayVars,
                  inputVars, cmdVars, markers, fetched, headed, histVars >>

waitStarted ==
  /\ wpc["started"] = "waiting"
  /\ LET key == Key(startedExt) IN
     \E why \in WaitOutcomes(startedExt) :
       /\ StoreCall("started", "wait", key)
       /\ Answer(why)
       /\ LET err == waitObject(key, why) IN
          IF err # Nil
            THEN Return("started", [zeroMsg EXCEPT !.err = err])
            ELSE Return("started", [zeroMsg EXCEPT !.started = TRUE])
  /\ UNCHANGED view
  /\ UNCHANGED << object, waitMax, mainVars, ctxCause, displayVars,
                  inputVars, cmdVars, markers, fetched, headed, histVars >>

\* A waitError that reports a failed wait as a remote error.
waitError_WrapsWaitFailure ==
  /\ wpc["error"] = "waiting"
  /\ LET key == Key(errorExt) IN
     \E why \in WaitOutcomes(errorExt) :
       /\ StoreCall("error", "wait", key)
       /\ Answer(why)
       /\ LET err == waitObject(key, why) IN
          IF err # Nil
            THEN Return("error",
                        [zeroMsg EXCEPT !.err =
                           Errorf(<<"remote error:">>, err)])
            ELSE /\ wpc' = [wpc EXCEPT !["error"] = "fetching"]
                 /\ UNCHANGED << wmsg, wg >>
  /\ UNCHANGED view
  /\ UNCHANGED << object, waitMax, mainVars, ctxCause, displayVars,
                  inputVars, cmdVars, markers, fetched, headed, histVars >>

waitError ==
  /\ wpc["error"] = "waiting"
  /\ LET key == Key(errorExt) IN
     \E why \in WaitOutcomes(errorExt) :
       /\ StoreCall("error", "wait", key)
       /\ Answer(why)
       /\ LET err == waitObject(key, why) IN
          IF err # Nil
            THEN Return("error", [zeroMsg EXCEPT !.err = err])
            ELSE /\ wpc' = [wpc EXCEPT !["error"] = "fetching"]
                 /\ UNCHANGED << wmsg, wg >>
  /\ UNCHANGED view
  /\ UNCHANGED << object, waitMax, mainVars, ctxCause, displayVars,
                  inputVars, cmdVars, markers, fetched, headed, histVars >>

waitErrorRead ==
  /\ wpc["error"] = "fetching"
  /\ LET key == Key(errorExt) IN
     \E resp \in GetOutcomes :
       /\ StoreCall("error", "get", key)
       /\ Answer(resp.err \o resp.readErr)
       /\ fetched' = IF resp.err \o resp.readErr = Nil
                       THEN resp.body ELSE fetched
       /\ Return("error",
                 [zeroMsg EXCEPT !.err =
                    Errorf(<<"remote error:">>, readError(key, resp))])
  /\ UNCHANGED view
  /\ UNCHANGED << object, waitMax, mainVars, ctxCause, displayVars,
                  inputVars, cmdVars, markers, headed, histVars >>

waitOk ==
  /\ wpc["ok"] = "waiting"
  /\ LET key == Key(okExt) IN
     \E why \in WaitOutcomes(okExt) :
       /\ StoreCall("ok", "wait", key)
       /\ Answer(why)
       /\ LET err == waitObject(key, why) IN
          IF err # Nil
            THEN Return("ok", [zeroMsg EXCEPT !.err = err])
            ELSE /\ wpc' = [wpc EXCEPT !["ok"] = "fetching"]
                 /\ UNCHANGED << wmsg, wg >>
  /\ UNCHANGED view
  /\ UNCHANGED << object, waitMax, mainVars, ctxCause, displayVars,
                  inputVars, cmdVars, markers, fetched, headed, histVars >>

\* A waitOk that stores the size it has read in the model itself.
waitOkSize_WritesLength ==
  /\ wpc["ok"] = "fetching"
  /\ LET key == Key(sqlExt) IN
     \E resp \in HeadOutcomes :
       /\ StoreCall("ok", "head", key)
       /\ Answer(resp.err)
       /\ headed' = IF resp.err = Nil THEN << resp.size >> ELSE headed
       /\ LET r == size(key, resp) IN
          IF r.err # Nil
            THEN /\ Return("ok", [zeroMsg EXCEPT !.err = r.err])
                 /\ UNCHANGED contentLength
            ELSE /\ Return("ok", [zeroMsg EXCEPT !.size = r.size])
                 /\ contentLength' = r.size
  /\ UNCHANGED view
  /\ UNCHANGED << object, waitMax, mainVars, ctxCause, percent,
                  progressWidth, inputVars, cmdVars, markers, fetched,
                  histVars >>

waitOkSize ==
  /\ wpc["ok"] = "fetching"
  /\ LET key == Key(sqlExt) IN
     \E resp \in HeadOutcomes :
       /\ StoreCall("ok", "head", key)
       /\ Answer(resp.err)
       /\ headed' = IF resp.err = Nil THEN << resp.size >> ELSE headed
       /\ LET r == size(key, resp) IN
          IF r.err # Nil
            THEN Return("ok", [zeroMsg EXCEPT !.err = r.err])
            ELSE Return("ok", [zeroMsg EXCEPT !.size = r.size])
  /\ UNCHANGED view
  /\ UNCHANGED << object, waitMax, mainVars, ctxCause, displayVars,
                  inputVars, cmdVars, markers, fetched, histVars >>

\* ------------------------------------------------- the program's commands
\* Init: the three watcher commands are built, each registering itself in
\* the wait group, and handed to the runtime inside one sequence.
WaitModelInit ==
  /\ mainPc = "start"
  /\ mainPc' = "eventloop"
  /\ wg' = wg + Cardinality(Watchers)
  /\ wpc' = [w \in Watchers |-> "idle"]
  /\ seqPc' = "seqmsg"
  /\ UNCHANGED << object, waitMax, runErr, retErr, stdout, ctxCause,
                  displayVars, wmsg, inputVars, tickPc, okSeq, startedSeq,
                  quitCmds, quitMsgs, envVars, histVars >>
  /\ Render

\* The event loop receives Init's sequence and starts the goroutine that runs
\* it; its first command, tea.Println, offers its line to the event loop.
InitSequence ==
  /\ Running
  /\ seqPc = "seqmsg"
  /\ seqPc' = "println"
  /\ UNCHANGED view
  /\ UNCHANGED << object, waitMax, mainVars, ctxCause, displayVars, watchVars,
                  inputVars, tickPc, okSeq, startedSeq, quitCmds, quitMsgs,
                  envVars, histVars >>

InitPrintln ==
  /\ Running
  /\ seqPc = "println"
  /\ seqPc' = "tick"
  /\ printed' = printed \cup {"waiting for"}
  /\ UNCHANGED << object, waitMax, mainVars, ctxCause, displayVars, watchVars,
                  inputVars, tickPc, okSeq, startedSeq, quitCmds, quitMsgs,
                  envVars, first, firstErr, firstErrFrom >>
  /\ Render

\* tickCmd(time.Second) of Init's sequence: the timer fires and the tick is
\* offered to the event loop; with the program ended the sequence goes on.
InitTick ==
  /\ seqPc = "tick"
  /\ seqPc' = IF Running THEN "ticksend" ELSE "launch"
  /\ UNCHANGED view
  /\ UNCHANGED << object, waitMax, mainVars, ctxCause, displayVars, watchVars,
                  inputVars, tickPc, okSeq, startedSeq, quitCmds, quitMsgs,
                  envVars, histVars >>

\* tea.Batch of Init's sequence: the three watcher commands start.
InitBatch ==
  /\ seqPc = "launch"
  /\ seqPc' = "batch"
  /\ wpc' = [w \in Watchers |-> "waiting"]
  /\ UNCHANGED view
  /\ UNCHANGED << object, waitMax, mainVars, ctxCause, displayVars, wmsg, wg,
                  inputVars, tickPc, okSeq, startedSeq, quitCmds, quitMsgs,
                  envVars, histVars >>

quitCmd ==
  /\ quitCmds > 0
  /\ quitCmds' = quitCmds - 1
  /\ ctxCause' = cancel(ctxCause, Nil)
  /\ quitMsgs' = (quitMsgs \/ Running)
  /\ UNCHANGED view
  /\ UNCHANGED << object, waitMax, mainVars, displayVars, watchVars, inputVars,
                  seqPc, tickPc, okSeq, startedSeq, envVars, histVars >>

\* ------------------------------------------------------------------ Update
\* A tick: the timer of Init's sequence or of the tickCmd Update returned has
\* fired and the event loop receives the tick.
UpdateTick ==
  /\ Running
  /\ \/ /\ seqPc = "ticksend"
        /\ seqPc' = "launch"
     \/ /\ tickPc = "armed"
        /\ seqPc' = seqPc
  /\ tickPc' = "armed"
  /\ \E since \in Elapsed : percent' = Min(waitMax, since)
  /\ UNCHANGED << object, waitMax, mainVars, ctxCause, progressWidth,
                  contentLength, watchVars, inputVars, okSeq, startedSeq,
                  quitCmds, quitMsgs, envVars, histVars >>
  /\ Render

\* The terminal reports its size and the event loop receives the message.
UpdateWindowSize(width) ==
  /\ Running
  /\ progressWidth' = Min(barMaxWidth, width - barPad * 2)
  /\ UNCHANGED << object, waitMax, mainVars, ctxCause, percent,
                  contentLength, watchVars, inputVars, cmdVars, envVars,
                  histVars >>
  /\ Render

\* A handleKeys that cancels without a cause of its own.
handleKeys_CancelsPlain(key) ==
  /\ Running
  /\ IF key \in QuitKeys
       THEN /\ keysLeft > 0
            /\ keysLeft' = keysLeft - 1
            /\ ctxCause' = cancel(ctxCause, Nil)
            /\ quitCmds' = quitCmds + 1
            /\ first' = IF first = None THEN "key" ELSE first
       ELSE UNCHANGED << keysLeft, ctxCause, quitCmds, first >>
  /\ UNCHANGED << object, waitMax, mainVars, displayVars, watchVars, seqPc,
                  tickPc, okSeq, startedSeq, quitMsgs, envVars, printed,
                  firstErr, firstErrFrom >>
  /\ Render

\* A key is pressed and the event loop receives the key message.
handleKeys(key) ==
  /\ Running
  /\ IF key \in QuitKeys
       THEN /\ keysLeft > 0
            /\ keysLeft' = keysLeft - 1
            /\ ctxCause' = cancel(ctxCause, <<"by user input:", key>>)
            /\ quitCmds' = quitCmds + 1
            /\ first' = IF first = None THEN "key" ELSE first
       ELSE UNCHANGED << keysLeft, ctxCause, quitCmds, first >>
  /\ UNCHANGED << object, waitMax, mainVars, displayVars, watchVars, seqPc,
                  tickPc, okSeq, startedSeq, quitMsgs, envVars, printed,
                  firstErr, firstErrFrom >>
  /\ Render

\* A handleWaits that takes the started outcome for the ok outcome.
handleWaits_StartedIsOk(w) ==
  /\ Running
  /\ wpc[w] = "sending"
  /\ wpc' = [wpc EXCEPT ![w] = "handled"]
  /\ wmsg' = [wmsg EXCEPT ![w] = zeroMsg]
  /\ LET m == wmsg[w] IN
     IF m.err # Nil
       THEN /\ ctxCause' = cancel(ctxCause, m.err)
            /\ quitCmds' = quitCmds + 1
            /\ first' = IF first = None THEN "error" ELSE first
            /\ firstErr' = IF firstErr = Nil /\ ctxCause = Nil
                             THEN m.err ELSE firstErr
            /\ firstErrFrom' = IF firstErr = Nil /\ ctxCause = Nil
                                 THEN w ELSE firstErrFrom
            /\ UNCHANGED << contentLength, okSeq, startedSeq >>
     ELSE /\ contentLength' = m.size
          /\ okSeq' = "seqmsg"
          /\ first' = IF first = None THEN "ok" ELSE first
          /\ UNCHANGED << ctxCause, quitCmds, startedSeq, firstErr,
                          firstErrFrom >>
  /\ UNCHANGED << object, waitMax, mainVars, percent, progressWidth, wg,
                  inputVars, seqPc, tickPc, quitMsgs, envVars, printed >>
  /\ Render

\* A handleWaits that quits on a failed wait without recording its error.
handleWaits_DropsErr(w) ==
  /\ Running
  /\ wpc[w] = "sending"
  /\ wpc' = [wpc EXCEPT ![w] = "handled"]
  /\ wmsg' = [wmsg EXCEPT ![w] = zeroMsg]
  /\ LET m == wmsg[w] IN
     IF m.err # Nil
       THEN /\ quitCmds' = quitCmds + 1
            /\ first' = IF first = None THEN "error" ELSE first
            /\ firstErr' = IF firstErr = Nil /\ ctxCause = Nil
                             THEN m.err ELSE firstErr
            /\ firstErrFrom' = IF firstErr = Nil /\ ctxCause = Nil
                                 THEN w ELSE firstErrFrom
            /\ UNCHANGED << ctxCause, contentLength, okSeq, startedSeq >>
     ELSE IF m.started
       THEN /\ startedSeq' = "seqmsg"
            /\ UNCHANGED << ctxCause, quitCmds, contentLength, okSeq,
                            first, firstErr, firstErrFrom >>
     ELSE /\ contentLength' = m.size
          /\ okSeq' = "seqmsg"
          /\ first' = IF first = None THEN "ok" ELSE first
          /\ UNCHANGED << ctxCause, quitCmds, startedSeq, firstErr,
                          firstErrFrom >>
  /\ UNCHANGED << object, waitMax, mainVars, percent, progressWidth, wg,
                  inputVars, seqPc, tickPc, quitMsgs, envVars, printed >>
  /\ Render

handleWaits(w) ==
  /\ Running
  /\ wpc[w] = "sending"
  /\ wpc' = [wpc EXCEPT ![w] = "handled"]
  /\ wmsg' = [wmsg EXCEPT ![w] = zeroMsg]
  /\ LET m == wmsg[w] IN
     IF m.err # Nil
       THEN /\ ctxCause' = cancel(ctxCause, m.err)
            /\ quitCmds' = quitCmds + 1
            /\ first' = IF first = None THEN "error" ELSE first
            /\ firstErr' = IF firstErr = Nil /\ ctxCause = Nil
                             THEN m.err ELSE firstErr
            /\ firstErrFrom' = IF firstErr = Nil /\ ctxCause = Nil
                                 THEN w ELSE firstErrFrom
            /\ UNCHANGED << contentLength, okSeq, startedSeq >>
     ELSE IF m.started
       THEN /\ startedSeq' = "seqmsg"
            /\ UNCHANGED << ctxCause, quitCmds, contentLength, okSeq,
                            first, firstErr, firstErrFrom >>
     ELSE /\ contentLength' = m.size
          /\ okSeq' = "seqmsg"
          /\ first' = IF first = None THEN "ok" ELSE first
          /\ UNCHANGED << ctxCause, quitCmds, startedSeq, firstErr,
                          firstErrFrom >>
  /\ UNCHANGED << object, waitMax, mainVars, percent, progressWidth, wg,
                  inputVars, seqPc, tickPc, quitMsgs, envVars, printed >>
  /\ Render

\* The sequence handleWaits returns for "started": one printed line.
StartedSequence ==
  /\ Running
  /\ \/ /\ startedSeq = "seqmsg"
        /\ startedSeq' = "println"
        /\ printed' = printed
     \/ /\ startedSeq = "println"
        /\ startedSeq' = "done"
        /\ printed' = printed \cup {"started"}
  /\ UNCHANGED << object, waitMax, mainVars, ctxCause, displayVars, watchVars,
                  inputVars, seqPc, tickPc, okSeq, quitCmds, quitMsgs,
                  envVars, first, firstErr, firstErrFrom >>
  /\ IF startedSeq = "println" THEN Render ELSE UNCHANGED view

\* An ok sequence with quitCmd in front of the printed line.
OkSequence_QuitsFirst ==
  /\ Running
  /\ \/ /\ okSeq = "seqmsg"
        /\ okSeq' = "println"
        /\ quitCmds' = quitCmds + 1
        /\ UNCHANGED printed
     \/ /\ okSeq = "println"
        /\ okSeq' = "done"
        /\ printed' = printed \cup {"ok"}
        /\ UNCHANGED quitCmds
  /\ UNCHANGED << object, waitMax, mainVars, ctxCause, displayVars, watchVars,
                  inputVars, seqPc, tickPc, startedSeq, quitMsgs, envVars,
                  first, firstErr, firstErrFrom >>
  /\ IF okSeq = "println" THEN Render ELSE UNCHANGED view

\* An ok sequence that prints its line and has no quitCmd after it.
OkSequence_NoQuit ==
  /\ Running
  /\ \/ /\ okSeq = "seqmsg"
        /\ okSeq' = "println"
        /\ UNCHANGED << printed, quitCmds >>
     \/ /\ okSeq = "println"
        /\ okSeq' = "done"
        /\ printed' = printed \cup {"ok"}
        /\ UNCHANGED quitCmds
  /\ UNCHANGED << object, waitMax, mainVars, ctxCause, displayVars, watchVars,
                  inputVars, seqPc, tickPc, startedSeq, quitMsgs, envVars,
                  first, firstErr, firstErrFrom >>
  /\ IF okSeq = "println" THEN Render ELSE UNCHANGED view

\* The sequence handleWaits returns for the ok outcome: the printed line,
\* then quitCmd.
OkSequence ==
  /\ Running
  /\ \/ /\ okSeq = "seqmsg"
        /\ okSeq' = "println"
        /\ UNCHANGED << printed, quitCmds >>
     \/ /\ okSeq = "println"
        /\ okSeq' = "done"
        /\ printed' = printed \cup {"ok"}
        /\ quitCmds' = quitCmds + 1
  /\ UNCHANGED << object, waitMax, mainVars, ctxCause, displayVars, watchVars,
                  inputVars, seqPc, tickPc, startedSeq, quitMsgs, envVars,
                  first, firstErr, firstErrFrom >>
  /\ IF okSeq = "println" THEN Render ELSE UNCHANGED view

\* A Wait that prints model.contentLength before it looks at the cause.
WaitResult_PrintsFirst(err, cause, length) ==
  IF err # Nil
    THEN [err |-> Errorf(<<"tea program:">>, err), out |-> << >>]
  ELSE IF cause # Nil /\ ~ErrorsIs(cause, Canceled)
    THEN [err |-> Errorf(<<"canceled:">>, cause), out |-> << length >>]
  ELSE [err |-> Nil, out |-> << length >>]

\* ------------------------------------------------------------------- Wait
\* What Wait() returns and prints from Run's error, the cause of the run
\* context and model.contentLength.
WaitResult(err, cause, length) ==
  IF err # Nil
    THEN [err |-> Errorf(<<"tea program:">>, err), out |-> << >>]
  ELSE IF cause # Nil /\ ~ErrorsIs(cause, Canceled)
    THEN [err |-> Errorf(<<"canceled:">>, cause), out |-> << >>]
  ELSE [err |-> Nil, out |-> << length >>]

\* progress.Run() returns err: the runtime cancels its own context, every
\* blocked Send returns without delivering, and no message is handled again;
\* a sequence whose message was not received is never run.  Wait() then
\* settles its result and what it prints, and the deferred model.Wait()
\* cancels the run context: a quitCmd that runs from now on changes nothing.
Wait(err) ==
  /\ mainPc' = "wgwait"
  /\ ctxCause' = cancel(ctxCause, Nil)
  /\ runErr' = err
  /\ LET r == WaitResult(err, ctxCause, contentLength) IN
       /\ retErr' = r.err
       /\ stdout' = stdout \o r.out
  /\ seqPc' = CASE seqPc = "seqmsg" -> "dropped"
                [] seqPc = "println" -> "tick"
                [] seqPc = "ticksend" -> "launch"
                [] OTHER -> seqPc
  /\ wpc' = [w \in Watchers |->
               IF wpc[w] = "sending" THEN "dropped" ELSE wpc[w]]
  /\ wmsg' = [w \in Watchers |-> zeroMsg]
  /\ startedSeq' = IF startedSeq \in {"seqmsg", "println"}
                     THEN "dropped" ELSE startedSeq
  /\ okSeq' = IF okSeq = "seqmsg" THEN "dropped"
              ELSE IF okSeq = "println" THEN "done" ELSE okSeq
  /\ quitCmds' = 0
  /\ quitMsgs' = FALSE
  /\ UNCHANGED view
  /\ UNCHANGED << object, waitMax, displayVars, wg, inputVars, tickPc, envVars,
                  histVars >>

\* The event loop receives tea.Quit: Run returns no error.
Quit ==
  /\ Running
  /\ quitMsgs
  /\ Wait(Nil)

\* The program fails (its input cannot be read): Run returns the error.
ProgramFails ==
  /\ Running
  /\ Wait(ErrProgram)

\* A model.Wait() that cancels and returns without wg.Wait().
WaitModelWait_NoWgWait ==
  /\ mainPc = "wgwait"
  /\ mainPc' = "returned"
  /\ UNCHANGED view
  /\ UNCHANGED << object, waitMax, runErr, retErr, stdout, ctxCause,
                  displayVars, watchVars, inputVars, cmdVars, envVars,
                  histVars >>

\* defer model.Wait(), after its cancel: wait for the wait group.
WaitModelWait ==
  /\ mainPc = "wgwait"
  /\ wg = 0
  /\ mainPc' = "returned"
  /\ UNCHANGED view
  /\ UNCHANGED << object, waitMax, runErr, retErr, stdout, ctxCause,
                  displayVars, watchVars, inputVars, cmdVars, envVars,
                  histVars >>

\* ------------------------------------------------------------------- Next
Next ==
  \/ WaitModelInit
  \/ InitSequence
  \/ InitPrintln
  \/ InitTick
  \/ InitBatch
  \/ quitCmd
  \/ UpdateTick
  \/ \E width \in Widths : UpdateWindowSize(width)
  \/ \E key \in Keys : handleKeys(key)
  \/ \E w \in Watchers : handleWaits(w)
  \/ StartedSequence
  \/ OkSequence
  \/ waitStarted
  \/ waitError
  \/ waitErrorRead
  \/ waitOk
  \/ waitOkSize
  \/ Quit
  \/ ProgramFails
  \/ WaitModelWait
  \/ MarkerAppears("started", startedExt)
  \/ MarkerAppears("error", errorExt)
  \/ MarkerAppears("ok", okExt)

Spec == Init /\ [][Next]_vars

\* ================================================================ claims
Returned == mainPc = "returned"
NoQuitKey == keysLeft = MaxQuitKeys
WaitExts == {startedExt, errorExt, okExt}

\* C1 (as stated, refuted by the code): when the ok marker is visible before
\* the error marker and the ok outcome is the first terminal event Update
\* handles, with no store failure, no quit key and no program failure, Wait
\* returns no error and prints the size - also when another outcome is
\* handled after the ok outcome and before quitCmd cancels the run context.
C1_OkFirstSucceeds ==
  LET Pos(ext) == CHOOSE i \in 1..Len(markers) : markers[i] = ext IN
  ( /\ Returned
    /\ runErr = Nil
    /\ NoQuitKey
    /\ failures = {}
    /\ first = "ok"
    /\ Visible(okExt)
    /\ Visible(errorExt) => Pos(okExt) < Pos(errorExt) )
  => /\ retErr = Nil
     /\ stdout = << contentLength >>

\* C2 (as stated, refuted by the code): when the error marker is visible
\* before the ok marker, with no store failure, no quit key and no program
\* failure, Wait returns an error that holds the fetched body and prints no
\* size.
C2_ErrorMarkerFirstFails ==
  LET Pos(ext) == CHOOSE i \in 1..Len(markers) : markers[i] = ext IN
  ( /\ Returned
    /\ runErr = Nil
    /\ NoQuitKey
    /\ failures = {}
    /\ Visible(errorExt)
    /\ Visible(okExt) => Pos(errorExt) < Pos(okExt) )
  => /\ \E body \in Bodies : Contains(retErr, body)
     /\ stdout = << >>

\* C2 (amended): when the error watcher has fetched the body and its outcome
\* is the first error Update handles while the run context is not canceled,
\* and the program does not fail, Wait returns an error that holds the
\* fetched body and prints no size, whatever the ok watcher returns later.
C2_HandledRemoteErrorFails ==
  (Returned /\ runErr = Nil /\ firstErrFrom = "error" /\ fetched # None)
  => /\ retErr # Nil
     /\ Contains(retErr, "remote error:")
     /\ Contains(retErr, fetched)
     /\ stdout = << >>

C2_Witness ==
  /\ Returned
  /\ runErr = Nil
  /\ firstErrFrom = "error"
  /\ fetched \in Bodies
  /\ Visible(okExt)
  /\ wpc["ok"] = "handled"

\* C3: when no marker appears, no quit key is pressed, the store fails in no
\* other way than by the deadline and the program does not fail, Wait
\* returns the deadline error of one of the three existence-waits: it is no
\* success and no remote error, and no size is printed.
C3_NoMarkerTimesOut ==
  ( /\ Returned
    /\ runErr = Nil
    /\ NoQuitKey
    /\ markers = << >>
    /\ TransportErr \notin failures )
  => /\ \E ext \in WaitExts :
          retErr = <<"canceled:", "wait for">> \o Key(ext)
                     \o DeadlineExceeded
     /\ ErrorsIs(retErr, DeadlineExceeded)
     /\ ~Contains(retErr, "remote error:")
     /\ stdout = << >>

C3_Witness ==
  /\ Returned
  /\ runErr = Nil
  /\ NoQuitKey
  /\ markers = << >>
  /\ failures = {DeadlineExceeded}
  /\ firstErrFrom = "error"
  /\ ErrorsIs(retErr, DeadlineExceeded)

\* C4 (as stated, refuted by the code): once the run context is canceled
\* and the program has not failed, Wait never blocks forever - either Wait
\* has returned or some step of the program, of one of its tasks or of the
\* store is still possible.
C4_WaitNeverBlocks ==
  (ctxCause # Nil /\ runErr = Nil) => (Returned \/ ENABLED Next)

\* C5 (as stated, refuted by the code): when a quit key ends the run, no
\* watcher outcome is handled at all and the program does not fail, Wait
\* returns no error.
C5_QuitKeyReportsNoError ==
  ( /\ Returned
    /\ runErr = Nil
    /\ first = "key"
    /\ \A w \in Watchers : wpc[w] # "handled" )
  => retErr = Nil

\* C6: once Wait has returned the wait group counter is zero and no watcher
\* task is waiting, fetching or still to be started.
C6_NoWatcherAfterReturn ==
  Returned =>
    /\ wg = 0
    /\ \A w \in Watchers : wpc[w] \in {"handled", "dropped"}

C6_Witness ==
  /\ Returned
  /\ first = "ok"
  /\ wpc["ok"] = "handled"
  /\ \E w \in Watchers : wpc[w] = "dropped"

\* C7 (as stated, refuted by the code): when a store call of a watcher has
\* failed or the error watcher has fetched a body - a watcher has returned
\* an error the cancellation did not cause - and no quit key is pressed and
\* the program does not fail, Wait returns an error.
C7_AnyWatcherErrorFails ==
  ( /\ Returned
    /\ runErr = Nil
    /\ NoQuitKey
    /\ failures # {} \/ fetched # None )
  => retErr # Nil

\* C7 (amended): when the program does not fail, the first watcher error
\* Update handles while the run context is not canceled is the error Wait
\* returns; the cause never becomes an error a watcher returned because the
\* context was canceled, and Wait never returns such an error.
C7_FirstHandledErrorWins ==
  /\ ctxCause # Canceled => ~ErrorsIs(ctxCause, Canceled)
  /\ (Returned /\ runErr = Nil) =>
       /\ firstErr # Nil => retErr = Errorf(<<"canceled:">>, firstErr)
       /\ ~ErrorsIs(retErr, Canceled)

C7_Witness ==
  /\ Returned
  /\ runErr = Nil
  /\ firstErr # Nil
  /\ \E w \in Watchers : w # firstErrFrom /\ wpc[w] = "handled"

\* C8: the cause of the run context is set at most once - once it is set no
\* step changes it.
C8_CauseSetOnce == [][ctxCause # Nil => ctxCause' = ctxCause]_vars

C8_Witness ==
  /\ Returned
  /\ first = "key"
  /\ firstErr = Nil
  /\ ctxCause \notin {Nil, Canceled}
  /\ \E w \in Watchers : wpc[w] = "handled"

\* C9: percent, the progress bar's width and contentLength are written only
\* by a step of Update while the program runs - a tick, a window size or a
\* handled watcher message - and never by a step of a watcher task;
\* contentLength is written only from a handled message of the ok watcher.
C9_DisplayWrittenByUpdateOnly ==
  [][ /\ displayVars' # displayVars =>
           /\ Running
           /\ wg' = wg
           /\ \A w \in Watchers :
                wpc'[w] # wpc[w] => wpc'[w] = "handled"
      /\ contentLength' # contentLength =>
           /\ wpc["ok"] = "sending"
           /\ wpc'["ok"] = "handled"
           /\ contentLength' = wmsg["ok"].size
      /\ (wg' # wg \/ \E w \in Watchers :
                        wpc'[w] \in {"fetching", "sending", "dropped"}
                          /\ wpc'[w] # wpc[w])
           => displayVars' = displayVars ]_vars

C9_Witness ==
  /\ contentLength # 0
  /\ percent # 0
  /\ progressWidth # defaultWidth
  /\ \A w \in Watchers : wpc[w] = "handled"

\* C10: once Wait has settled its result it has printed at most one line;
\* it has printed the line, model.contentLength, exactly when it reports no
\* error, and a failing run has printed nothing.
C10_SizePrintedIffNoError ==
  /\ Len(stdout) <= 1
  /\ mainPc \in {"start", "eventloop"} => stdout = << >>
  /\ mainPc \in {"wgwait", "returned"} =>
       /\ retErr = Nil <=> stdout = << contentLength >>
       /\ retErr # Nil <=> stdout = << >>

C10_Witness ==
  /\ Returned
  /\ retErr = Nil
  /\ stdout = << 5 >>
  /\ first = "ok"

\* C11: every call to the object store is one of: the started watcher waits
\* for name.started, the error watcher waits for and reads name.error, the
\* ok watcher waits for name.ok and heads name.bz2.crypt; no other key is
\* passed to the store.
C11_OnlyDerivedKeys ==
  BagToSet(calls) \subseteq
    { << "started", "wait", << object, ".started" >> >>,
      << "error", "wait", << object, ".error" >> >>,
      << "error", "get", << object, ".error" >> >>,
      << "ok", "wait", << object, ".ok" >> >>,
      << "ok", "head", << object, ".bz2.crypt" >> >> }

C11_Witness ==
  /\ Returned
  /\ Cardinality(BagToSet(calls)) = 5
  /\ fetched \in Bodies
  /\ headed # << >>

\* C12: a watcher whose existence-wait fails returns that failure - the
\* store's transport or deadline error, or the context's error once the run
\* context is canceled - wrapped with "wait for" and its key only; and the
\* cause of the run and the error Wait returns are a "remote error" only if
\* the error watcher has seen name.error exist and has gone on to read it.
C12_WaitFailureIsNotRemote ==
  [][ /\ \A w \in Watchers :
           ( /\ wpc[w] = "waiting"
             /\ wpc'[w] = "sending"
             /\ wmsg'[w].err # Nil )
           => \E why \in {Canceled, DeadlineExceeded, TransportErr} :
                /\ wmsg'[w].err = <<"wait for", object, "." \o w>> \o why
                /\ why = Canceled <=> ctxCause # Nil
                /\ why # Canceled => why \in failures'
                /\ ~Contains(wmsg'[w].err, "remote error:")
      /\ (Contains(ctxCause', "remote error:")
            \/ Contains(retErr', "remote error:"))
           => /\ Visible(errorExt)'
              /\ BagIn(<< "error", "get", Key(errorExt) >>, calls') ]_vars

C12_Witness ==
  /\ Returned
  /\ Visible(errorExt)
  /\ firstErrFrom = "ok"
  /\ retErr = <<"canceled:", "wait for", object, okExt>> \o TransportErr
  /\ BagIn(<< "error", "wait", Key(errorExt) >>, calls)
  /\ ~BagIn(<< "error", "get", Key(errorExt) >>, calls)

\* C13: once the ok watcher has read the size, the run context is canceled
\* or a step towards its cancellation is possible that waits for no other
\* watcher - the ok message is offered to the running event loop, its
\* sequence is running, or a quitCmd is about to run; and once the context
\* is canceled no existence-wait ends by its deadline any more.
C13_OkSuccessCancels ==
  [][ /\ (headed' # << >> /\ ctxCause' = Nil) =>
           /\ Running'
           /\ \/ wpc'["ok"] = "sending"
              \/ okSeq' \in {"seqmsg", "println"}
              \/ quitCmds' > 0
      /\ ctxCause # Nil => failures' = failures ]_vars

C13_Witness ==
  /\ Returned
  /\ first = "ok"
  /\ markers = << okExt >>
  /\ headed # << >>
  /\ failures = {}
  /\ ctxCause = Canceled
  /\ { c[1] : c \in BagToSet(calls) } = Watchers

\* C14: the step in which Update handles the started watcher's success does
\* not cancel the run context, returns no quitCmd, starts no ok sequence and
\* leaves contentLength, the cause and Wait's position unchanged: it only
\* returns the sequence that prints the "started" line, and the program
\* keeps running.
C14_StartedIsNotTerminal ==
  [][ ( /\ wpc["started"] = "sending"
        /\ wpc'["started"] = "handled"
        /\ wmsg["started"].started )
      => /\ ctxCause' = ctxCause
         /\ contentLength' = contentLength
         /\ quitCmds' = quitCmds
         /\ quitMsgs' = quitMsgs
         /\ okSeq' = okSeq
         /\ first' = first
         /\ startedSeq' = "seqmsg"
         /\ Running' ]_vars

C14_Witness ==
  /\ Returned
  /\ startedSeq = "done"
  /\ "started" \in printed
  /\ first = "error"
  /\ firstErrFrom = "error"
  /\ fetched \in Bodies

\* C15: each watcher command moves forward only - registered, launched,
\* waiting, then for the error and ok watchers one fetch, returned - so it
\* is run at most once; it makes each of its store calls at most once (no
\* retry); the step in which it returns calls wg.Done once and returns one
\* message that is exactly one of started, failed with an error, or
\* completed with a size.
C15_EachWatcherOnce ==
  [][ LET Rank == [ new |-> 0, idle |-> 1, waiting |-> 2, fetching |-> 3,
                    sending |-> 4, dropped |-> 5, handled |-> 5 ]
          Returns(w) == /\ wpc[w] \in {"waiting", "fetching"}
                        /\ wpc'[w] \in {"sending", "dropped"}
      IN
      /\ \A c \in BagToSet(calls') : CopiesIn(c, calls') = 1
      /\ \A w \in Watchers :
           /\ wpc'[w] # wpc[w] => Rank[wpc'[w]] > Rank[wpc[w]]
           /\ Returns(w) => wg' = wg - 1
           /\ wpc'[w] = "sending" /\ wpc[w] # "sending" =>
                LET m == wmsg'[w] IN
                  \/ m.err # Nil /\ ~m.started /\ m.size = 0
                  \/ m.err = Nil /\ m.started /\ m.size = 0 /\ w = "started"
                  \/ m.err = Nil /\ ~m.started /\ w = "ok"
      /\ wg' < wg => \E w \in Watchers : Returns(w) ]_vars

C15_Witness ==
  /\ Returned
  /\ \A w \in Watchers : wpc[w] = "handled"
  /\ Cardinality(BagToSet(calls)) = 5
  /\ wg = 0

\* C16: the cause tells the three endings apart.  When a quit key is the
\* first terminal event the cause is "by user input: <key>", which is no
\* deadline error and not context.Canceled; when a watcher's deadline error
\* is the first error handled before any cancel the cause is that error,
\* which is no user input error and not context.Canceled; and while Run has
\* returned no error the cause is plain context.Canceled only after the ok
\* outcome came first and its sequence has run to quitCmd.
C16_CausesDistinguishable ==
  LET ByKey(c) == Len(c) = 2 /\ c[1] = "by user input:" /\ c[2] \in QuitKeys
      ByTimeout(c) == ErrorsIs(c, DeadlineExceeded)
  IN
  /\ first = "key" =>
       /\ ByKey(ctxCause)
       /\ ~ByTimeout(ctxCause)
       /\ ~ErrorsIs(ctxCause, Canceled)
  /\ ByTimeout(firstErr) =>
       /\ ctxCause = firstErr
       /\ ~ByKey(ctxCause)
       /\ ~ErrorsIs(ctxCause, Canceled)
  /\ (ctxCause = Canceled /\ runErr = Nil) =>
       /\ first = "ok"
       /\ okSeq = "done"

C16_Witness ==
  /\ Returned
  /\ first = "key"
  /\ ctxCause = <<"by user input:", "esc">>
  /\ DeadlineExceeded \in failures
  /\ \E w \in Watchers : wpc[w] = "handled"

C18_NoViewAfterCancel ==
  [][ctxCause' # Nil => (view' = view \/ view' = << >>)]_vars

C18_Witness ==
  /\ Running
  /\ ctxCause # Nil
  /\ view = << >>
  /\ percent # 0
  /\ tickPc = "armed"
  /\ first = "error"

\* C19: whenever Wait has settled on returning no error, Update has handled
\* the ok watcher's completed outcome as the first terminal event of the
\* run, its sequence has run, and the one line written to the output is the
\* size HeadObject returned for the artifact; no run without a handled ok
\* outcome reports success with the initial contentLength 0.
C19_SuccessPrintsHeadedSize ==
  (mainPc \in {"wgwait", "returned"} /\ retErr = Nil) =>
    /\ wpc["ok"] = "handled"
    /\ first = "ok"
    /\ okSeq = "done"
    /\ headed # << >>
    /\ stdout = headed
    /\ BagIn(<< "ok", "head", Key(sqlExt) >>, calls)

C19_Witness ==
  /\ Returned
  /\ retErr = Nil
  /\ headed = << 5 >>
  /\ stdout = << 5 >>
  /\ wpc["ok"] = "handled"

\* C20 (as stated, refuted by the code): the wait group is balanced in every
\* execution - in every state from which no further step is possible every
\* registered watcher has run and called wg.Done, so the counter is zero.
C20_WaitGroupBalanced == (~ENABLED Next) => wg = 0
====
